---- MODULE Spec2Model ----
(***************************************************************************)
(* Model of singularity-mpi's version-detection parser                     *)
(* (internal/pkg/configparser/configparser.go) and of the experiment       *)
(* matrix execution loop of the main command (getListExperiments, run,     *)
(* testMPI).                                                               *)
(*                                                                         *)
(* Strings are sequences of one-character strings.  Indices follow Go:     *)
(* strings.Index is 0-based and returns -1 when the substring is absent,   *)
(* line[a:b] holds the characters a .. b-1 and panics when a > b.          *)
(***************************************************************************)
EXTENDS Integers, Sequences, FiniteSets, TLC

VARIABLES
    line, dres, dpc,                      \* detectMpiImplem: input, result, position
    kvs, config, ppc,                     \* Parse: entry values, returned Config, position
    MpiMap, Nrun,                         \* run: configured versions, sysCfg.Nrun
    experiments, toRun, idx, i,           \* run: matrix, pending list, loop indices
    success, failure, newRes,             \* run: locals of the loop body
    file, synced,                         \* results file: lines written, lines on stable storage
    pc, inv,                              \* position in the process, invocation number
    base, outs, decided,                  \* history: file length at start, runner outcomes
    killedAt, interrupted                 \* history: where a kill struck, whether one did

detVars   == <<line, dres, dpc>>
parseVars == <<kvs, config, ppc>>
runVars   == <<MpiMap, Nrun, experiments, toRun, idx, i, success, failure, newRes,
               file, synced, pc, inv, base, outs, decided, killedAt, interrupted>>
vars      == <<detVars, parseVars, runVars>>

----------------------------------------------------------------------------
(* Bounds *)

MaxFrags == 3          \* fragments per input line of detectMpiImplem
MaxEntries == 2        \* key/value entries per configuration file
MaxNrun == 2           \* largest -n value
MaxInvocations == 2    \* invocations of the tool against one results file

----------------------------------------------------------------------------
(* Strings *)

OpenMPIMarker == <<"o", "p", "e", "n", "m", "p", "i", "-">>
MPICHMarker   == <<"m", "p", "i", "c", "h", "-">>
IntelMarker   == <<"l", "_", "m", "p", "i", "_">>
Tar           == <<".", "t", "a", "r">>

OpenMPIOffset == 8
MPICHOffset == 6

\* The value a panicking slice expression stands for.
PANIC == <<"panic">>

Min(S) == CHOOSE x \in S : \A y \in S : x <= y

\* strings.Index(s, sub)
Index(s, sub) ==
    LET hits == {k \in 0..(Len(s) - Len(sub)) : SubSeq(s, k + 1, k + Len(sub)) = sub}
    IN  IF hits = {} THEN -1 ELSE Min(hits)

\* strings.Contains(s, sub)
Contains(s, sub) == Index(s, sub) >= 0

\* s[a:b]
Slice(s, a, b) ==
    IF a < 0 \/ b > Len(s) \/ a > b THEN PANIC ELSE SubSeq(s, a + 1, b)

RECURSIVE Flatten(_)
Flatten(ss) == IF ss = <<>> THEN <<>> ELSE Head(ss) \o Flatten(Tail(ss))

----------------------------------------------------------------------------
(* configparser: detection *)

detectOpenMPIVersion(l) ==
    IF Contains(l, OpenMPIMarker) /\ Contains(l, Tar)
    THEN LET endVersion   == Index(l, Tar)
             startVersion == Index(l, OpenMPIMarker) + OpenMPIOffset
         IN  IF startVersion # -1 /\ endVersion # -1
             THEN Slice(l, startVersion, endVersion)
             ELSE <<>>
    ELSE <<>>

detectMPICHVersion(l) ==
    IF Contains(l, MPICHMarker) /\ Contains(l, Tar)
    THEN LET endVersion   == Index(l, Tar)
             startVersion == Index(l, MPICHMarker) + MPICHOffset
         IN  IF startVersion # -1 /\ endVersion # -1
             THEN Slice(l, startVersion, endVersion)
             ELSE <<>>
    ELSE <<>>

detectIntelMPIVersion(l) ==
    IF Contains(l, IntelMarker) /\ Contains(l, Tar)
    THEN LET endVersion   == Index(l, Tar)
             startVersion == Index(l, IntelMarker)
         IN  IF startVersion # -1 /\ endVersion # -1
             THEN Slice(l, startVersion, endVersion)
             ELSE <<>>
    ELSE <<>>

Undetected == [implem |-> "", version |-> <<>>]
Panicked   == [implem |-> "panic", version |-> PANIC]

\* A panic in one of the three detectors unwinds through detectMpiImplem.
detectMpiImplem(l) ==
    LET ompiVer == detectOpenMPIVersion(l) IN
    IF ompiVer = PANIC THEN Panicked
    ELSE IF ompiVer # <<>> THEN [implem |-> "openmpi", version |-> ompiVer]
    ELSE LET mpichVer == detectMPICHVersion(l) IN
    IF mpichVer = PANIC THEN Panicked
    ELSE IF mpichVer # <<>> THEN [implem |-> "mpich", version |-> mpichVer]
    ELSE LET intelVer == detectIntelMPIVersion(l) IN
    IF intelVer = PANIC THEN Panicked
    ELSE IF intelVer # <<>> THEN [implem |-> "intel", version |-> intelVer]
    ELSE Undetected

----------------------------------------------------------------------------
(* configparser: Parse *)

\* new(Config) with an empty MpiMap
NewConfig == [MPIImplem |-> "", MpiMap |-> <<>>]

\* The nil *Config that accompanies an error
NilConfig == [MPIImplem |-> "nil", MpiMap |-> <<>>]

\* config.MpiMap[version] = value
MapStore(m, version, value) == (version :> value) @@ m

\* The body of Parse's loop for one entry value: the error it returns, if any,
\* and the Config after it.
ParseEntryNoConflictCheck(c, value) ==
    LET d == detectMpiImplem(value) IN
    IF d = Panicked THEN [err |-> "panic", config |-> NilConfig]
    ELSE IF d.implem = "" \/ d.version = <<>>
    THEN [err |-> "detect", config |-> NilConfig]
    ELSE [err |-> "",
          config |-> [MPIImplem |-> IF c.MPIImplem = "" THEN d.implem ELSE c.MPIImplem,
                      MpiMap |-> MapStore(c.MpiMap, d.version, value)]]

ParseEntry(c, value) ==
    LET d == detectMpiImplem(value) IN
    IF d = Panicked THEN [err |-> "panic", config |-> NilConfig]
    ELSE IF d.implem = "" \/ d.version = <<>>
    THEN [err |-> "detect", config |-> NilConfig]
    ELSE IF c.MPIImplem = ""
    THEN [err |-> "",
          config |-> [MPIImplem |-> d.implem,
                      MpiMap |-> MapStore(c.MpiMap, d.version, value)]]
    ELSE IF c.MPIImplem # d.implem
    THEN [err |-> "conflict", config |-> NilConfig]
    ELSE [err |-> "",
          config |-> [c EXCEPT !.MpiMap = MapStore(c.MpiMap, d.version, value)]]

\* for _, kv := range kvs { ... }; return config, nil
RECURSIVE ParseLoop(_, _)
ParseLoop(c, rest) ==
    IF rest = <<>> THEN [err |-> "", config |-> c]
    ELSE LET r == ParseEntry(c, Head(rest)) IN
         IF r.err # "" THEN r ELSE ParseLoop(r.config, Tail(rest))

\* Parse, given the values of the entries kv.LoadKeyValueConfig returned
ParseKvs(values) == ParseLoop(NewConfig, values)

----------------------------------------------------------------------------
(* Inputs of detectMpiImplem: every concatenation of at most MaxFrags      *)
(* fragments.                                                              *)

Fragments == {OpenMPIMarker, MPICHMarker, IntelMarker, Tar, <<"3">>, <<"/">>}

Lines == UNION {{Flatten(fs) : fs \in [1..n -> Fragments]} : n \in 0..MaxFrags}

\* Values the states of the specifications that do not run a component keep.
DetIdle   == line = <<>> /\ dres = Undetected /\ dpc = "idle"
ParseIdle == kvs = <<>> /\ config = NilConfig /\ ppc = "idle"
RunIdle   ==
    /\ MpiMap = {} /\ Nrun = 0 /\ experiments = <<>> /\ toRun = <<>>
    /\ idx = 0 /\ i = 0 /\ success = TRUE /\ failure = FALSE
    /\ newRes = [Pass |-> FALSE, Note |-> ""]
    /\ file = <<>> /\ synced = 0 /\ pc = "idle" /\ inv = 0
    /\ base = 0 /\ outs = <<>> /\ decided = <<>> /\ killedAt = "" /\ interrupted = FALSE

DetectInit ==
    /\ line \in Lines
    /\ dres = Undetected
    /\ dpc = "call"
    /\ ParseIdle /\ RunIdle

\* One call of detectMpiImplem.
Detect ==
    /\ dpc = "call"
    /\ dres' = detectMpiImplem(line)
    /\ dpc' = IF detectMpiImplem(line) = Panicked THEN "panic" ELSE "return"
    /\ UNCHANGED <<line, parseVars, runVars>>

DetectNext == Detect

----------------------------------------------------------------------------
(* Parse on every sequence of at most MaxEntries values, each an optional  *)
(* leading ".tar", an optional marker, an optional version and an optional *)
(* ".tar".                                                                 *)

ConfigValues ==
    {h \o m \o v \o t : h \in {<<>>, Tar},
                        m \in {<<>>, OpenMPIMarker, MPICHMarker, IntelMarker},
                        v \in {<<>>, <<"3">>, <<"4">>},
                        t \in {<<>>, Tar}}

ParseInit ==
    /\ kvs \in UNION {[1..n -> ConfigValues] : n \in 0..MaxEntries}
    /\ config = NilConfig
    /\ ppc = "call"
    /\ DetIdle /\ RunIdle

\* One call of Parse: it returns a Config ("ok"), returns an error ("detect",
\* "conflict") or panics.
Parse ==
    /\ ppc = "call"
    /\ ppc' = IF ParseKvs(kvs).err = "" THEN "ok" ELSE ParseKvs(kvs).err
    /\ config' = ParseKvs(kvs).config
    /\ UNCHANGED <<kvs, detVars, runVars>>

ParseNext == Parse

SpecParse == ParseInit /\ [][ParseNext]_vars

SpecDetect == DetectInit /\ [][DetectNext]_vars

----------------------------------------------------------------------------
(* The experiment matrix and the execution loop (main command).  An         *)
(* experiment is kept as its two versions: URL and ID are functions of the  *)
(* version and of the Config.                                               *)

Versions == {"3.0.4", "3.1.0"}

\* The orders in which a range over a set of map keys may visit them.
Perms(S) == {p \in [1..Cardinality(S) -> S] : \A a, b \in DOMAIN p : p[a] = p[b] => a = b}

\* getListExperiments: the outer range visits the hosts in some order, and for
\* each host the inner range visits the containers in some order.
getListExperiments(m) ==
    {Flatten([a \in 1..Cardinality(m) |->
                 [b \in 1..Cardinality(m) |->
                     [HostMPI |-> outer[a], ContainerMPI |-> inner[outer[a]][b]]]]) :
        outer \in Perms(m), inner \in [m -> Perms(m)]}

\* The line run writes for experiment e: four tab-separated fields.
ResultLine(e, status, note) ==
    <<e.HostMPI, "\t", e.ContainerMPI, "\t", status, "\t", note, "\n">>

\* util.OpenResultsFile: the file is created if absent and opened for append;
\* what it holds stays.
OpenResultsFile(f) == f

\* results.Load: each line parsed as four tab-separated fields; a missing file
\* is an empty history.
Load(f) ==
    [n \in 1..Len(f) |->
        [HostMPI |-> f[n][1], ContainerMPI |-> f[n][3], Status |-> f[n][5], Note |-> f[n][7]]]

\* exp.Pruning: the experiments whose (host, container) identity has no record.
Pruning(exps, existingResults) ==
    LET Known(e) == \E n \in 1..Len(existingResults) :
                        /\ existingResults[n].HostMPI = e.HostMPI
                        /\ existingResults[n].ContainerMPI = e.ContainerMPI
    IN  SelectSeq(exps, LAMBDA e : ~Known(e))

\* What exp.Run may return through runExperiment: Pass, Note and whether
\* execRes.Err is non-nil.
RunnerOutcomes ==
    {[Pass |-> TRUE,  Note |-> "passed",  Err |-> FALSE],
     [Pass |-> FALSE, Note |-> "failed",  Err |-> FALSE],
     [Pass |-> FALSE, Note |-> "error",   Err |-> TRUE],
     [Pass |-> TRUE,  Note |-> "error",   Err |-> TRUE]}

ZeroResult == [Pass |-> FALSE, Note |-> ""]

\* for i = 0; i < sysCfg.Nrun; i++
IterCondOffByOne(k, n) == k < n - 1

IterCond(k, n) == k < n

\* The loop body after runExperiment returned out: log.Fatalf on an error,
\* else success is cleared when the run did not pass.
AfterIteration(s, f, out) ==
    IF out.Err
    THEN [fatal |-> TRUE, success |-> s, failure |-> f]
    ELSE [fatal |-> FALSE, success |-> (s /\ out.Pass), failure |-> f]

\* if failure {ERROR} else if !success {FAIL} else {PASS}
Status(f, s) == IF f THEN "ERROR" ELSE IF ~s THEN "FAIL" ELSE "PASS"

\* The FAIL and PASS branches call f.Sync(); the ERROR branch does not.
Syncs(status) == status # "ERROR"

\* History: the verdict the runner outcomes os of one experiment call for
\* (ERROR if one is an execution error, else FAIL if one did not pass, else
\* PASS), and how many times the runner was invoked.
HasErr(os) == \E n \in 1..Len(os) : os[n].Err

Aggregate(os) ==
    IF HasErr(os) THEN "ERROR"
    ELSE IF \E n \in 1..Len(os) : ~os[n].Pass THEN "FAIL"
    ELSE "PASS"

Verdict(os) == [runs |-> Len(os), status |-> Aggregate(os)]

RunInit ==
    /\ MpiMap \in (SUBSET Versions) \ {{}}
    /\ Nrun \in -1..MaxNrun
    /\ experiments = <<>> /\ toRun = <<>>
    /\ idx = 0 /\ i = 0 /\ success = TRUE /\ failure = FALSE
    /\ newRes = ZeroResult
    /\ file = <<>> /\ synced = 0
    /\ pc = "main" /\ inv = 1
    /\ base = 0 /\ outs = <<>> /\ decided = <<>> /\ killedAt = "" /\ interrupted = FALSE
    /\ DetIdle /\ ParseIdle

\* main: experiments := getListExperiments(config)
GetListExperiments ==
    /\ pc = "main"
    /\ experiments' \in getListExperiments(MpiMap)
    /\ pc' = "testMPI"
    /\ UNCHANGED <<MpiMap, Nrun, toRun, idx, i, success, failure, newRes, file, synced,
                   inv, base, outs, decided, killedAt, interrupted, detVars, parseVars>>

\* The loop variables at the start of the body for experiment number n of the
\* pending list pending, or the end of run when there is none.
EnterExperiment(pending, n) ==
    /\ idx' = n
    /\ i' = 0 /\ success' = TRUE /\ failure' = FALSE /\ newRes' = ZeroResult
    /\ outs' = <<>>
    /\ pc' = IF n <= Len(pending) THEN "iter" ELSE "exit"

\* testMPI: load the results, prune, and enter run when something is pending.
LoadAndPrune ==
    /\ pc = "testMPI"
    /\ toRun' = Pruning(experiments, Load(file))
    /\ file' = OpenResultsFile(file)
    /\ base' = Len(file)
    /\ decided' = <<>>
    /\ EnterExperiment(toRun', 1)
    /\ UNCHANGED <<MpiMap, Nrun, experiments, synced, inv, killedAt, interrupted,
                   detVars, parseVars>>

\* One iteration of the inner loop: runExperiment returns out.
RunIteration ==
    /\ pc = "iter"
    /\ IterCond(i, Nrun)
    /\ \E out \in RunnerOutcomes :
          LET r == AfterIteration(success, failure, out) IN
          /\ newRes' = [Pass |-> out.Pass, Note |-> out.Note]
          /\ outs' = Append(outs, out)
          /\ decided' = IF r.fatal THEN Append(decided, Verdict(Append(outs, out))) ELSE decided
          /\ success' = r.success
          /\ failure' = r.failure
          /\ pc' = IF r.fatal THEN "fatal" ELSE "iter"
          /\ i' = IF r.fatal THEN i ELSE i + 1
    /\ UNCHANGED <<MpiMap, Nrun, experiments, toRun, idx, file, synced, inv, base,
                   killedAt, interrupted, detVars, parseVars>>

\* The inner loop is over: f.WriteString of the record.  The ERROR branch then
\* goes on to the next experiment, the others to f.Sync().
WriteResult ==
    /\ pc = "iter"
    /\ ~IterCond(i, Nrun)
    /\ file' = Append(file, ResultLine(toRun[idx], Status(failure, success), newRes.Note))
    /\ decided' = Append(decided, Verdict(outs))
    /\ IF Syncs(Status(failure, success))
       THEN /\ pc' = "sync"
            /\ UNCHANGED <<idx, i, success, failure, newRes, outs>>
       ELSE EnterExperiment(toRun, idx + 1)
    /\ UNCHANGED <<MpiMap, Nrun, experiments, toRun, synced, inv, base,
                   killedAt, interrupted, detVars, parseVars>>

\* f.Sync(), then the next experiment.
SyncResult ==
    /\ pc = "sync"
    /\ synced' = Len(file)
    /\ EnterExperiment(toRun, idx + 1)
    /\ UNCHANGED <<MpiMap, Nrun, experiments, toRun, file, inv, base, decided,
                   killedAt, interrupted, detVars, parseVars>>

\* The process is killed inside run: lines written and not yet synced may or
\* may not have reached the file.
Kill ==
    /\ pc \in {"iter", "sync"}
    /\ pc' = "killed"
    /\ killedAt' = pc
    /\ interrupted' = TRUE
    /\ \E n \in synced..Len(file) : file' = SubSeq(file, 1, n)
    /\ UNCHANGED <<MpiMap, Nrun, experiments, toRun, idx, i, success, failure, newRes,
                   synced, inv, base, outs, decided, detVars, parseVars>>

\* The tool is invoked again with the same configuration and results file.
Restart ==
    /\ pc \in {"exit", "fatal", "killed"}
    /\ inv < MaxInvocations
    /\ inv' = inv + 1
    /\ pc' = "main"
    /\ synced' = Len(file)
    /\ base' = Len(file)
    /\ experiments' = <<>> /\ toRun' = <<>>
    /\ idx' = 0 /\ i' = 0 /\ success' = TRUE /\ failure' = FALSE
    /\ newRes' = ZeroResult
    /\ outs' = <<>> /\ decided' = <<>> /\ killedAt' = ""
    /\ UNCHANGED <<MpiMap, Nrun, file, interrupted, detVars, parseVars>>

Next ==
    \/ GetListExperiments
    \/ LoadAndPrune
    \/ RunIteration
    \/ WriteResult
    \/ SyncResult
    \/ Kill
    \/ Restart

Spec == RunInit /\ [][Next]_vars

----------------------------------------------------------------------------
(* Properties of detectMpiImplem *)

Markers == {OpenMPIMarker, MPICHMarker, IntelMarker}

MarkerOf(implem) ==
    CASE implem = "openmpi" -> OpenMPIMarker
      [] implem = "mpich"   -> MPICHMarker
      [] implem = "intel"   -> IntelMarker

\* Position just after the first occurrence of marker m (m occurs in l).
MarkerEnd(l, m) == Index(l, m) + Len(m)

\* Position of the first ".tar" at or after position from, -1 when there is none.
FirstTarFrom(l, from) ==
    LET hits == {k \in from..(Len(l) - Len(Tar)) : SubSeq(l, k + 1, k + Len(Tar)) = Tar}
    IN  IF hits = {} THEN -1 ELSE Min(hits)

\* Marker m yields no version in l: it is absent, or no ".tar" follows it, or
\* the first ".tar" of the line lies before its end, or the span is empty.
NoVersion(l, m) ==
    \/ ~Contains(l, m)
    \/ FirstTarFrom(l, MarkerEnd(l, m)) = -1
    \/ (Contains(l, Tar) /\ Index(l, Tar) < MarkerEnd(l, m))
    \/ FirstTarFrom(l, MarkerEnd(l, m)) = MarkerEnd(l, m)

\* The text strictly between the end of marker m and the first ".tar" after it.
VersionSpan(l, m) ==
    SubSeq(l, MarkerEnd(l, m) + 1, FirstTarFrom(l, MarkerEnd(l, m)))

\* C6: detectMpiImplem returns Undetected, without crashing, for every line in
\* which no marker yields a version (marker absent, no ".tar" after it, first
\* ".tar" before the end of the marker, or empty span).
C6_UndetectedNeverCrashes ==
    (dpc \in {"return", "panic"} /\ \A m \in Markers : NoVersion(line, m))
        => (dpc = "return" /\ dres = Undetected)

\* C7: when detection succeeds, the version is exactly the text strictly between
\* the end of the detected implementation's marker and the first ".tar" after
\* it, for OpenMPI, MPICH and Intel MPI alike; the marker is not part of it.
C7_VersionIsSpanAfterMarker ==
    (dpc = "return" /\ dres # Undetected)
        => dres.version = VersionSpan(line, MarkerOf(dres.implem))

----------------------------------------------------------------------------
(* Properties of Parse *)

Detectable(value) == detectMpiImplem(value) \notin {Undetected, Panicked}

AllDetectable(values) == \A j \in 1..Len(values) : Detectable(values[j])

SameImplem(values) ==
    \A j, k \in 1..Len(values) :
        detectMpiImplem(values[j]).implem = detectMpiImplem(values[k]).implem

\* C5: on entries whose values are all detectable, Parse succeeds exactly when
\* all entries detect the same implementation and otherwise fails with the
\* conflict error, in whatever order the entries come; every value stored in a
\* returned Config detects as Config.MPIImplem.
C5_SingleImplementation ==
    /\ (ppc # "call" /\ AllDetectable(kvs))
          => /\ (ppc = "ok") <=> SameImplem(kvs)
             /\ ~SameImplem(kvs) => ppc = "conflict"
    /\ ppc = "ok"
          => \A v \in DOMAIN config.MpiMap :
                detectMpiImplem(config.MpiMap[v]).implem = config.MPIImplem

\* Two detectable entries of different implementations were rejected.
C5_Witness ==
    /\ ppc = "conflict"
    /\ Len(kvs) = 2
    /\ AllDetectable(kvs)
    /\ detectMpiImplem(kvs[1]).implem # detectMpiImplem(kvs[2]).implem

\* C9: Parse fails and returns no Config when there are zero entries, and when
\* the value of any entry is Undetected.
C9_EmptyOrUndetectedFails ==
    (ppc # "call" /\ (kvs = <<>> \/ \E j \in 1..Len(kvs) : detectMpiImplem(kvs[j]) = Undetected))
        => (ppc # "ok" /\ config = NilConfig)

----------------------------------------------------------------------------
(* Properties of the execution loop *)

\* The records appended since this invocation loaded the file.
NewRecs == Load(SubSeq(file, base + 1, Len(file)))

\* The records of this invocation that are on stable storage.
DurableRecs == Load(SubSeq(file, base + 1, synced))

Key(r) == <<r.HostMPI, r.ContainerMPI>>

\* Control has passed the point where the record of pending experiment
\* number j is appended.
PastAppend(j) == j < idx \/ (j = idx /\ pc \in {"fatal", "exit"})

\* C1: once run has ended on its own, every pending experiment has been
\* attempted, and each experiment whose runner returned an execution error has
\* a record with status ERROR: an error on one experiment does not abort the
\* batch.
C1_ErrorRecordedBatchContinues ==
    pc \in {"exit", "fatal"}
        => /\ Len(decided) = Len(toRun)
           /\ \A j \in 1..Len(decided) :
                 decided[j].status = "ERROR"
                     => \E n \in 1..Len(NewRecs) :
                           Key(NewRecs[n]) = Key(toRun[j]) /\ NewRecs[n].Status = "ERROR"

\* C2: with N >= 1, a decided experiment has exactly one record, whose status
\* is ERROR if an iteration returned an execution error (the runner not being
\* invoked after it), else FAIL if an iteration did not pass, else PASS.
C2_AggregateStatus ==
    Nrun >= 1
        => /\ \A n \in 1..(Len(outs) - 1) : ~outs[n].Err
           /\ pc \in {"iter", "sync", "exit", "fatal"}
                 => \A j \in 1..Len(decided) :
                       \E n \in 1..Len(NewRecs) :
                           /\ Key(NewRecs[n]) = Key(toRun[j])
                           /\ NewRecs[n].Status = decided[j].status
                           /\ \A k \in 1..Len(NewRecs) :
                                 Key(NewRecs[k]) = Key(toRun[j]) => k = n

\* C3: whatever its status (PASS, FAIL or ERROR), the record of a decided
\* experiment is on stable storage before the next experiment's first iteration
\* and from then on, so a kill after the append cannot lose it.
C3_RecordSyncedBeforeNext ==
    pc \in {"iter", "sync", "exit", "fatal", "killed"}
        => \A j \in 1..Len(toRun) :
              PastAppend(j)
                  => \E n \in 1..Len(DurableRecs) : Key(DurableRecs[n]) = Key(toRun[j])

\* C4: after an invocation that was not interrupted every one of the k*k pairs
\* has a record, and a second invocation prunes to the empty list and invokes
\* the runner zero times.
C4_IdempotentResumption ==
    ~interrupted
        => /\ (inv = 1 /\ pc \in {"exit", "fatal"})
                 => \A h, c \in MpiMap :
                       \E n \in 1..Len(file) : Key(Load(file)[n]) = <<h, c>>
           /\ (inv = 2 /\ pc \notin {"main", "testMPI"})
                 => (toRun = <<>> /\ outs = <<>>)

\* C8: with a run count N <= 0 no result record is ever appended.
C8_NonPositiveRunCountRejected ==
    Nrun <= 0 => file = <<>>

\* C10: the records one invocation of run has written are those of the first
\* pending experiments, one each and in the order attempted; a record exists
\* only once all N iterations of its experiment have completed, and exists
\* before any iteration of the next experiment; a kill during an iteration
\* leaves no record of the experiment being run.
C10_OneRecordPerExperimentInOrder ==
    pc \in {"iter", "sync", "exit", "fatal", "killed"}
        => /\ Len(NewRecs) <= Len(decided)
           /\ \A n \in 1..Len(NewRecs) :
                 /\ Key(NewRecs[n]) = Key(toRun[n])
                 /\ decided[n].runs >= Nrun
                 /\ \A k \in 1..Len(NewRecs) : Key(NewRecs[k]) = Key(NewRecs[n]) => k = n
           /\ (pc = "sync" \/ (pc = "killed" /\ killedAt = "sync"))
                 => Len(outs) >= Nrun
           /\ (idx >= 2 /\ outs # <<>>) => Len(NewRecs) >= idx - 1
           /\ (pc \in {"iter", "fatal"} \/ (pc = "killed" /\ killedAt = "iter"))
                 => Len(NewRecs) = idx - 1

\* Killed during the second iteration of the second pending experiment, the
\* first experiment's record written.
C10_Witness ==
    /\ pc = "killed" /\ killedAt = "iter"
    /\ Nrun = 2 /\ idx = 2 /\ i = 1
    /\ Len(NewRecs) = 1
    /\ Key(NewRecs[1]) = Key(toRun[1])

====
